---- MODULE Spec2Model ----
(***************************************************************************)
(* Model of the fuzzy matching and ranking code of awgo (package fuzzy):   *)
(* Match, SortOptions, Sorter and stringSlice.                             *)
(*                                                                         *)
(* Strings are sequences of Unicode code points ([]rune); a one-character  *)
(* Go string such as strChar is a sequence of length one and "" is <<>>.   *)
(* Scores are float64 in the code; every weight used here is a small       *)
(* integer, for which float64 arithmetic is exact, so scores are integers. *)
(***************************************************************************)
EXTENDS Integers, Sequences, FiniteSets, TLC

(***************************************************************************)
(* Bounds of the model.                                                    *)
(***************************************************************************)
MaxStrLen == 3
MaxQueryLen == 2
MaxLen == 3
MaxCalls == 2
MaxMutations == 1
ConcLen == 2
MaxOpts == 2
MaxLimit == 2
MaxItems == 2
MaxReleases == 3
MaxDepth == 2

(***************************************************************************)
(* Code points used by the model: 'a', 'b', 'A' and '_'.                   *)
(***************************************************************************)
Alphabet == {97, 98, 65, 95}

RECURSIVE StringsUpTo(_)
StringsUpTo(n) ==
    IF n = 0 THEN {<<>>}
    ELSE LET shorter == StringsUpTo(n - 1)
         IN  shorter \cup {Append(s, c) : s \in {t \in shorter : Len(t) = n - 1}, c \in Alphabet}

(***************************************************************************)
(* SortOptions and its default values.                                     *)
(***************************************************************************)
DefaultAdjacencyBonus == 5
DefaultSeparatorBonus == 10
DefaultCamelBonus == 10
DefaultLeadingLetterPenalty == -3
DefaultMaxLeadingLetterPenalty == -9
DefaultUnmatchedLetterPenalty == -1

NewSortOptionsSwapped ==
    [AdjacencyBonus          |-> DefaultSeparatorBonus,
     SeparatorBonus          |-> DefaultAdjacencyBonus,
     CamelBonus              |-> DefaultCamelBonus,
     LeadingLetterPenalty    |-> DefaultLeadingLetterPenalty,
     MaxLeadingLetterPenalty |-> DefaultMaxLeadingLetterPenalty,
     UnmatchedLetterPenalty  |-> DefaultUnmatchedLetterPenalty]

NewSortOptions ==
    [AdjacencyBonus          |-> DefaultAdjacencyBonus,
     SeparatorBonus          |-> DefaultSeparatorBonus,
     CamelBonus              |-> DefaultCamelBonus,
     LeadingLetterPenalty    |-> DefaultLeadingLetterPenalty,
     MaxLeadingLetterPenalty |-> DefaultMaxLeadingLetterPenalty,
     UnmatchedLetterPenalty  |-> DefaultUnmatchedLetterPenalty]

\* Options a caller may build by hand: SortOptions performs no validation,
\* so the signs of bonuses and penalties are not constrained.
FlatOptions ==
    [AdjacencyBonus          |-> 0,
     SeparatorBonus          |-> 0,
     CamelBonus              |-> 0,
     LeadingLetterPenalty    |-> -2,
     MaxLeadingLetterPenalty |-> -3,
     UnmatchedLetterPenalty  |-> 0]

InvertedOptions ==
    [AdjacencyBonus          |-> -2,
     SeparatorBonus          |-> 1,
     CamelBonus              |-> 3,
     LeadingLetterPenalty    |-> 5,
     MaxLeadingLetterPenalty |-> -1,
     UnmatchedLetterPenalty  |-> 2]

OptionsSet == {NewSortOptions, FlatOptions, InvertedOptions}

(***************************************************************************)
(* strings.ToLower / strings.ToUpper on the code points of the model.      *)
(***************************************************************************)
LowerRuneNoFold(c) == c

LowerRune(c) == IF c \in 65..90 THEN c + 32 ELSE c
UpperRune(c) == IF c \in 97..122 THEN c - 32 ELSE c
ToLower(s) == [k \in 1..Len(s) |-> LowerRune(s[k])]
ToUpper(s) == [k \in 1..Len(s) |-> UpperRune(s[k])]

(***************************************************************************)
(* Match: the local variables at the top of the loop, before any           *)
(* character of str has been read.  camel, hit and penalised are           *)
(* observations of the last iteration: whether the camel-case bonus was    *)
(* added to newScore, whether the character was a nextMatch or a rematch,  *)
(* and whether the leading-letter penalty was added to score.              *)
(***************************************************************************)
MatchStart ==
    [queryIdx        |-> 0,
     strIdx          |-> 0,
     score           |-> 0,
     penalty         |-> 0,
     bestLetter      |-> <<>>,
     bestLower       |-> <<>>,
     bestLetterScore |-> 0,
     prevMatched     |-> FALSE,
     prevLower       |-> FALSE,
     prevSeparator   |-> TRUE,
     camel           |-> FALSE,
     hit             |-> FALSE,
     penalised       |-> FALSE]

\* The penalty for the letters before the first match.
LeadingPenaltyUnclamped(strIdx, o) == strIdx * o.LeadingLetterPenalty

LeadingPenalty(strIdx, o) ==
    LET penalty == strIdx * o.LeadingLetterPenalty
    IN  IF penalty <= o.MaxLeadingLetterPenalty
        THEN o.MaxLeadingLetterPenalty
        ELSE penalty

\* The camel-case test of one iteration.
CamelBoundaryAnyUpper(prevLower, strChar, strLower, strUpper) ==
    prevLower /\ strChar = strUpper

CamelBoundary(prevLower, strChar, strLower, strUpper) ==
    prevLower /\ strChar = strUpper /\ strLower # strUpper

\* The increment computed for a character that is a nextMatch or a rematch.
NewScoreMisplacedAdjacency(prevMatched, prevSeparator, camel, o) ==
    (IF ~prevMatched THEN o.AdjacencyBonus ELSE 0)
    + (IF prevSeparator THEN o.SeparatorBonus ELSE 0)
    + (IF camel THEN o.CamelBonus ELSE 0)

NewScoreNoAdjacency(prevMatched, prevSeparator, camel, o) ==
    (IF prevSeparator THEN o.SeparatorBonus ELSE 0)
    + (IF camel THEN o.CamelBonus ELSE 0)

NewScore(prevMatched, prevSeparator, camel, o) ==
    (IF prevMatched THEN o.AdjacencyBonus ELSE 0)
    + (IF prevSeparator THEN o.SeparatorBonus ELSE 0)
    + (IF camel THEN o.CamelBonus ELSE 0)

\* if nextMatch { queryIdx++ }, inside the branch for nextMatch || rematch.
AdvanceQueryOnRematch(queryIdx, nextMatch, rematch) ==
    IF nextMatch \/ rematch THEN queryIdx + 1 ELSE queryIdx

AdvanceQuery(queryIdx, nextMatch, rematch) ==
    IF nextMatch THEN queryIdx + 1 ELSE queryIdx

\* if queryIdx == 0, inside the branch for nextMatch || rematch: whether
\* the leading-letter penalty is added to score.
PenalisedEveryHit(hit, queryIdx) == hit

Penalised(hit, queryIdx) == hit /\ queryIdx = 0

\* strChar == "_" || strChar == " "
IsSeparatorUnderscoreOnly(strChar) == strChar = <<95>>

IsSeparator(strChar) == strChar = <<95>> \/ strChar = <<32>>

\* One iteration up to the update of the best letter: the tests on the
\* character, the commit of the pending letter (score, bestLetter,
\* bestLower and bestLetterScore are their values after it and after the
\* leading-letter penalty) and newScore.
MatchScan(m, uStr, uQuery, o) ==
    LET strChar    == <<uStr[m.strIdx + 1]>>
        queryChar  == IF m.queryIdx # Len(uQuery)
                      THEN <<uQuery[m.queryIdx + 1]>>
                      ELSE <<>>
        queryLower == ToLower(queryChar)
        strLower   == ToLower(strChar)
        strUpper   == ToUpper(strChar)
        nextMatch  == queryChar # <<>> /\ queryLower = strLower
        rematch    == m.bestLetter # <<>> /\ m.bestLower = strLower
        advanced   == nextMatch /\ m.bestLetter # <<>>
        queryRepeat == m.bestLetter # <<>> /\ strChar # <<>> /\ m.bestLower = queryLower
        commit     == advanced \/ queryRepeat
        score1     == IF commit THEN m.score + m.bestLetterScore ELSE m.score
        hit        == nextMatch \/ rematch
        penalised  == Penalised(hit, m.queryIdx)
        penalty    == IF penalised THEN LeadingPenalty(m.strIdx, o) ELSE m.penalty
        camel      == hit /\ CamelBoundary(m.prevLower, strChar, strLower, strUpper)
    IN  [strChar         |-> strChar,
         strLower        |-> strLower,
         strUpper        |-> strUpper,
         nextMatch       |-> nextMatch,
         rematch         |-> rematch,
         hit             |-> hit,
         penalised       |-> penalised,
         penalty         |-> penalty,
         camel           |-> camel,
         newScore        |-> NewScore(m.prevMatched, m.prevSeparator, camel, o),
         score           |-> IF penalised THEN score1 + penalty ELSE score1,
         bestLetter      |-> IF commit THEN <<>> ELSE m.bestLetter,
         bestLower       |-> IF commit THEN <<>> ELSE m.bestLower,
         bestLetterScore |-> IF commit THEN 0 ELSE m.bestLetterScore]

\* if newScore >= bestLetterScore { ... } for a nextMatch or rematch, and
\* score += o.UnmatchedLetterPenalty for any other character: score and the
\* best letter after the iteration.
BestLetterStrict(b, o) ==
    IF b.hit
    THEN IF b.newScore > b.bestLetterScore
         THEN [score           |-> IF b.bestLetter # <<>>
                                   THEN b.score + o.UnmatchedLetterPenalty
                                   ELSE b.score,
               bestLetter      |-> b.strChar,
               bestLower       |-> ToLower(b.strChar),
               bestLetterScore |-> b.newScore]
         ELSE [score           |-> b.score,
               bestLetter      |-> b.bestLetter,
               bestLower       |-> b.bestLower,
               bestLetterScore |-> b.bestLetterScore]
    ELSE [score           |-> b.score + o.UnmatchedLetterPenalty,
          bestLetter      |-> b.bestLetter,
          bestLower       |-> b.bestLower,
          bestLetterScore |-> b.bestLetterScore]

BestLetterFreeSkip(b, o) ==
    IF b.hit /\ b.newScore >= b.bestLetterScore
    THEN [score           |-> IF b.bestLetter # <<>>
                              THEN b.score + o.UnmatchedLetterPenalty
                              ELSE b.score,
          bestLetter      |-> b.strChar,
          bestLower       |-> ToLower(b.strChar),
          bestLetterScore |-> b.newScore]
    ELSE [score           |-> b.score,
          bestLetter      |-> b.bestLetter,
          bestLower       |-> b.bestLower,
          bestLetterScore |-> b.bestLetterScore]

BestLetter(b, o) ==
    IF b.hit
    THEN IF b.newScore >= b.bestLetterScore
         THEN [score           |-> IF b.bestLetter # <<>>
                                   THEN b.score + o.UnmatchedLetterPenalty
                                   ELSE b.score,
               bestLetter      |-> b.strChar,
               bestLower       |-> ToLower(b.strChar),
               bestLetterScore |-> b.newScore]
         ELSE [score           |-> b.score,
               bestLetter      |-> b.bestLetter,
               bestLower       |-> b.bestLower,
               bestLetterScore |-> b.bestLetterScore]
    ELSE [score           |-> b.score + o.UnmatchedLetterPenalty,
          bestLetter      |-> b.bestLetter,
          bestLower       |-> b.bestLower,
          bestLetterScore |-> b.bestLetterScore]

\* One iteration of the loop over the characters of str.
MatchStep(m, uStr, uQuery, o) ==
    LET b    == MatchScan(m, uStr, uQuery, o)
        best == BestLetter(b, o)
    IN  [queryIdx        |-> AdvanceQuery(m.queryIdx, b.nextMatch, b.rematch),
         strIdx          |-> m.strIdx + 1,
         score           |-> best.score,
         penalty         |-> b.penalty,
         bestLetter      |-> best.bestLetter,
         bestLower       |-> best.bestLower,
         bestLetterScore |-> best.bestLetterScore,
         prevMatched     |-> b.hit,
         prevLower       |-> b.strChar = b.strLower /\ b.strLower # b.strUpper,
         prevSeparator   |-> IsSeparator(b.strChar),
         camel           |-> b.camel,
         hit             |-> b.hit,
         penalised       |-> b.penalised]

\* The statements after the loop: the Result that Match returns.
MatchResultNonEmptyQuery(m, str, query) ==
    [Match   |-> m.queryIdx = Len(query) /\ Len(query) # 0,
     Query   |-> query,
     Score   |-> IF m.bestLetter # <<>> THEN m.score + m.bestLetterScore ELSE m.score,
     SortKey |-> str]

MatchResultStrCursor(m, str, query) ==
    [Match   |-> m.strIdx = Len(str),
     Query   |-> query,
     Score   |-> IF m.bestLetter # <<>> THEN m.score + m.bestLetterScore ELSE m.score,
     SortKey |-> str]

MatchResult(m, str, query) ==
    [Match   |-> m.queryIdx = Len(query),
     Query   |-> query,
     Score   |-> IF m.bestLetter # <<>> THEN m.score + m.bestLetterScore ELSE m.score,
     SortKey |-> str]

RECURSIVE MatchLoop(_, _, _, _)
MatchLoop(m, uStr, uQuery, o) ==
    IF m.strIdx # Len(uStr)
    THEN MatchLoop(MatchStep(m, uStr, uQuery, o), uStr, uQuery, o)
    ELSE m

\* Match scores str for query.
Match(str, query, o) == MatchResult(MatchLoop(MatchStart, str, query, o), str, query)

(***************************************************************************)
(* stringSlice: the Sortable that SortStrings wraps around a []string.     *)
(* Indices are those of the code (from 0).                                 *)
(***************************************************************************)
\* The < of Go strings: lexicographic on the encoded code points.
StrLess(a, b) ==
    \E k \in 1..Len(b) :
        /\ \A l \in 1..(k - 1) : l <= Len(a) /\ a[l] = b[l]
        /\ \/ k = Len(a) + 1
           \/ k <= Len(a) /\ a[k] < b[k]

DataLen(d) == Len(d)
DataLess(d, i, j) == StrLess(d[i + 1], d[j + 1])

\* stringSlice.Swap
DataSwapOverwrite(d, i, j) == [d EXCEPT ![i + 1] = d[j + 1]]

DataSwap(d, i, j) == [d EXCEPT ![i + 1] = d[j + 1], ![j + 1] = d[i + 1]]

SortKey(d, i) == d[i + 1]

(***************************************************************************)
(* Sorter.  s.results is a sequence of pointers: <<>> is nil, <<r>> points *)
(* to the Result r.                                                        *)
(***************************************************************************)
\* NewSorter: results: make([]*Result, data.Len())
NewResults(d) == [k \in 1..DataLen(d) |-> <<>>]

\* Sorter.Less
LessAscending(res, d, i, j) ==
    LET a == res[i + 1][1].Score
        b == res[j + 1][1].Score
    IN  IF a = b THEN DataLess(d, i, j) ELSE a < b

LessNoTieBreak(res, d, i, j) ==
    LET a == res[i + 1][1].Score
        b == res[j + 1][1].Score
    IN  IF a = b THEN FALSE ELSE b < a

Less(res, d, i, j) ==
    LET a == res[i + 1][1].Score
        b == res[j + 1][1].Score
    IN  IF a = b THEN DataLess(d, i, j) ELSE b < a

\* Sorter.Swap: the new results and the new collection.
SwapResultsOnly(res, d, i, j) ==
    [results |-> [res EXCEPT ![i + 1] = res[j + 1], ![j + 1] = res[i + 1]],
     data    |-> d]

SwapResultsOverwrite(res, d, i, j) ==
    [results |-> [res EXCEPT ![i + 1] = res[j + 1]],
     data    |-> DataSwap(d, i, j)]

Swap(res, d, i, j) ==
    [results |-> [res EXCEPT ![i + 1] = res[j + 1], ![j + 1] = res[i + 1]],
     data    |-> DataSwap(d, i, j)]

\* NewSorter: if opts == nil { opts = NewSortOptions() }.  opts is a pointer:
\* <<>> is nil and <<r>> points to the SortOptions r.
ZeroSortOptions ==
    [AdjacencyBonus          |-> 0,
     SeparatorBonus          |-> 0,
     CamelBonus              |-> 0,
     LeadingLetterPenalty    |-> 0,
     MaxLeadingLetterPenalty |-> 0,
     UnmatchedLetterPenalty  |-> 0]

NewSorterOptionsZeroValue(opts) == IF opts = <<>> THEN ZeroSortOptions ELSE opts[1]

NewSorterOptions(opts) == IF opts = <<>> THEN NewSortOptions ELSE opts[1]

\* Sort: if s.results == nil { s.results = make([]*Result, s.Data.Len()) }.
\* fresh is the identity a newly made array gets.
SortBufferPerCall(b, res, d, fresh) ==
    [buf |-> fresh, results |-> NewResults(d)]

SortBuffer(b, res, d, fresh) ==
    IF b = 0
    THEN [buf |-> fresh, results |-> NewResults(d)]
    ELSE [buf |-> b, results |-> res]

\* Sort: s.results[i] = Match(key, query, s.Options)
ScoreAtKeepExisting(res, d, i, q, opts) ==
    IF res[i + 1] # <<>>
    THEN res
    ELSE [res EXCEPT ![i + 1] = <<Match(SortKey(d, i), q, opts)>>]

ScoreAt(res, d, i, q, opts) ==
    [res EXCEPT ![i + 1] = <<Match(SortKey(d, i), q, opts)>>]

(***************************************************************************)
(* The collections and queries of the model: "bob", "alice", "abel" and    *)
(* "bab"; the queries "" and "a".                                          *)
(***************************************************************************)
Str_bob == <<98, 111, 98>>
Str_alice == <<97, 108, 105, 99, 101>>
Str_abel == <<97, 98, 101, 108>>
Str_bab == <<98, 97, 98>>

Keys == {Str_bob, Str_alice, Str_abel, Str_bab}

SortQueries == {<<>>, <<97>>}

RECURSIVE CollectionsUpTo(_)
CollectionsUpTo(n) ==
    IF n = 0 THEN {<<>>}
    ELSE LET shorter == CollectionsUpTo(n - 1)
         IN  shorter \cup {Append(d, e) : d \in {t \in shorter : Len(t) = n - 1}, e \in Keys}

(***************************************************************************)
(* State.                                                                  *)
(***************************************************************************)
VARIABLES
    str,        \* Match: the candidate string
    query,      \* Match: the query
    o,          \* Match: the *SortOptions passed to Match
    m,          \* Match: the local variables
    mpc,        \* Match: "loop" while scanning, "done" once returned
    result,     \* Match: the Result returned, <<>> before the return
    data,       \* Sorter.Data: the caller's collection
    results,    \* Sorter.results
    options,    \* Sorter.Options
    spc,        \* Sort: "idle", "score", "sort", "done" or "panic"
    squery,     \* Sort: the query argument
    si,         \* Sort: i of the scoring loop, then i of the insertion sort
    sj,         \* Sort: j of the insertion sort
    before,     \* the collection as it was when Sort was called
    calls,      \* the number of calls of Sort so far
    mutations,  \* the number of changes the caller made to the collection
    buf,        \* the array behind Sorter.results: 0 for nil, else its identity
    returned,   \* the slices returned by the calls of Sort so far
    conc,       \* two Sorters used by two goroutines
    wf,         \* the Workflow: its settings and its Feedback
    stdout,     \* what has been written to os.Stdout
    previous,   \* the Option returned by the last Workflow.Option call
    saved,      \* the settings as they were before that call
    wpc,        \* Workflow.Option: "idle", "applied" or "reverted"
    gh,         \* the githubSource and the last call of its Downloads
    root        \* the directories, and the last call of findWorkflowRoot

matchVars == <<str, query, o, m, mpc, result>>

sortVars == <<data, results, options, spc, squery, si, sj, before, calls, mutations,
              buf, returned>>

concVars == <<conc>>

wfVars == <<wf, stdout, previous, saved, wpc>>

ghVars == <<gh>>

rootVars == <<root>>

vars == <<str, query, o, m, mpc, result,
          data, results, options, spc, squery, si, sj, before, calls, mutations,
          buf, returned, conc, wf, stdout, previous, saved, wpc, gh, root>>

\* No Sorter in use.
SortIdle ==
    /\ data = <<>>
    /\ results = <<>>
    /\ options = NewSortOptions
    /\ spc = "idle"
    /\ squery = <<>>
    /\ si = 0
    /\ sj = 0
    /\ before = <<>>
    /\ calls = 0
    /\ mutations = 0
    /\ buf = 0
    /\ returned = <<>>

\* No call of Match in progress.
MatchIdle ==
    /\ str = <<>>
    /\ query = <<>>
    /\ o = NewSortOptions
    /\ m = MatchStart
    /\ mpc = "idle"
    /\ result = <<>>

\* No goroutines sorting.
ConcIdle == conc = <<>>

\* No githubSource in use.
SourceIdle == gh = <<>>

\* No search for the workflow root.
RootIdle == root = <<>>

\* No Workflow in use.
WorkflowIdle ==
    /\ wf = <<>>
    /\ stdout = <<>>
    /\ previous = <<>>
    /\ saved = <<>>
    /\ wpc = "idle"

(***************************************************************************)
(* One call of Match, one loop iteration per step.                         *)
(***************************************************************************)
MatchInit ==
    /\ str \in StringsUpTo(MaxStrLen)
    /\ query \in StringsUpTo(MaxQueryLen)
    /\ o \in OptionsSet
    /\ m = MatchStart
    /\ mpc = "loop"
    /\ result = <<>>
    /\ SortIdle
    /\ ConcIdle
    /\ WorkflowIdle
    /\ SourceIdle
    /\ RootIdle

\* for strIdx != strLen { ... }
MatchIterate ==
    /\ mpc = "loop"
    /\ m.strIdx # Len(str)
    /\ m' = MatchStep(m, str, query, o)
    /\ UNCHANGED <<str, query, o, mpc, result>>
    /\ UNCHANGED <<sortVars, concVars, wfVars, ghVars, rootVars>>

\* The loop has ended: build and return the Result.
MatchReturn ==
    /\ mpc = "loop"
    /\ m.strIdx = Len(str)
    /\ mpc' = "done"
    /\ result' = <<MatchResult(m, str, query)>>
    /\ UNCHANGED <<str, query, o, m>>
    /\ UNCHANGED <<sortVars, concVars, wfVars, ghVars, rootVars>>

MatchNext == MatchIterate \/ MatchReturn

SpecMatch == MatchInit /\ [][MatchNext]_vars

\* Match on candidates and queries written with separators: "a", "b", "_"
\* and " ".
SepAlphabet == {97, 98, 95, 32}

SepQueryAlphabet == {97, 32}

MatchSepInit ==
    /\ str \in UNION {[1..n -> SepAlphabet] : n \in 0..MaxStrLen}
    /\ query \in UNION {[1..n -> SepQueryAlphabet] : n \in 0..MaxQueryLen}
    /\ o \in OptionsSet
    /\ m = MatchStart
    /\ mpc = "loop"
    /\ result = <<>>
    /\ SortIdle
    /\ ConcIdle
    /\ WorkflowIdle
    /\ SourceIdle
    /\ RootIdle

SpecMatchSep == MatchSepInit /\ [][MatchNext]_vars

\* The call runs on its own goroutine stack: while a statement of it can
\* run, one eventually does.
SpecMatchFair == SpecMatch /\ WF_vars(MatchNext)

(***************************************************************************)
(* A Sorter made by NewSorter, and calls of Sorter.Sort on it.  sort.Sort  *)
(* sorts a collection of at most 12 elements by insertion sort:            *)
(*   for i := 1; i < n; i++ {                                              *)
(*       for j := i; j > 0 && Less(j, j-1); j-- { Swap(j, j-1) } }         *)
(***************************************************************************)
SortInit ==
    /\ data \in CollectionsUpTo(MaxLen)
    /\ \/ buf = 1 /\ results = NewResults(data)     \* NewSorter(data, opts)
       \/ buf = 0 /\ results = <<>>                 \* &Sorter{Data: data, Options: opts}
    /\ options \in {NewSorterOptions(p) : p \in {<<>>, <<InvertedOptions>>}}
    /\ spc = "idle"
    /\ squery = <<>>
    /\ si = 0
    /\ sj = 0
    /\ before = data
    /\ calls = 0
    /\ mutations = 0
    /\ returned = <<>>
    /\ MatchIdle
    /\ ConcIdle
    /\ WorkflowIdle
    /\ SourceIdle
    /\ RootIdle

\* s.Sort(query) is called: if s.results == nil { s.results = make(...) }
SortCall(q) ==
    /\ spc \in {"idle", "done"}
    /\ calls < MaxCalls
    /\ calls' = calls + 1
    /\ spc' = "score"
    /\ squery' = q
    /\ si' = 0
    /\ before' = data
    /\ LET b == SortBuffer(buf, results, data, calls + 2)
       IN  /\ buf' = b.buf
           /\ results' = b.results
    /\ UNCHANGED <<data, options, sj, mutations, returned>>
    /\ UNCHANGED <<matchVars, concVars, wfVars, ghVars, rootVars>>

\* s.results[i] = Match(key, query, s.Options)
SortScore ==
    /\ spc = "score"
    /\ si < DataLen(data)
    /\ si < Len(results)
    /\ results' = ScoreAt(results, data, si, squery, options)
    /\ si' = si + 1
    /\ UNCHANGED <<data, options, spc, squery, sj, before, calls, mutations, buf, returned>>
    /\ UNCHANGED <<matchVars, concVars, wfVars, ghVars, rootVars>>

\* s.results[i] with i beyond the buffer: index out of range.
SortScorePanic ==
    /\ spc = "score"
    /\ si < DataLen(data)
    /\ si >= Len(results)
    /\ spc' = "panic"
    /\ UNCHANGED <<data, results, options, squery, si, sj, before, calls, mutations,
                   buf, returned>>
    /\ UNCHANGED <<matchVars, concVars, wfVars, ghVars, rootVars>>

\* The scoring loop has ended: sort.Sort(s) begins.
SortBegin ==
    /\ spc = "score"
    /\ si = DataLen(data)
    /\ spc' = "sort"
    /\ si' = 1
    /\ sj' = 1
    /\ UNCHANGED <<data, results, options, squery, before, calls, mutations, buf, returned>>
    /\ UNCHANGED <<matchVars, concVars, wfVars, ghVars, rootVars>>

\* j > 0 && Less(j, j-1): Swap(j, j-1); j--
SortSwap ==
    /\ spc = "sort"
    /\ si < DataLen(data)
    /\ sj > 0
    /\ Less(results, data, sj, sj - 1)
    /\ LET swapped == Swap(results, data, sj, sj - 1)
       IN  /\ results' = swapped.results
           /\ data' = swapped.data
    /\ sj' = sj - 1
    /\ UNCHANGED <<options, spc, squery, si, before, calls, mutations, buf, returned>>
    /\ UNCHANGED <<matchVars, concVars, wfVars, ghVars, rootVars>>

\* The inner loop ends: i++
SortAdvance ==
    /\ spc = "sort"
    /\ si < DataLen(data)
    /\ ~(sj > 0 /\ Less(results, data, sj, sj - 1))
    /\ si' = si + 1
    /\ sj' = si + 1
    /\ UNCHANGED <<data, results, options, spc, squery, before, calls, mutations,
                   buf, returned>>
    /\ UNCHANGED <<matchVars, concVars, wfVars, ghVars, rootVars>>

\* return s.results
SortReturn ==
    /\ spc = "sort"
    /\ si >= DataLen(data)
    /\ spc' = "done"
    /\ si' = 0
    /\ sj' = 0
    /\ returned' = Append(returned, [buf |-> buf, seen |-> results])
    /\ UNCHANGED <<data, results, options, squery, before, calls, mutations, buf>>
    /\ UNCHANGED <<matchVars, concVars, wfVars, ghVars, rootVars>>

\* Between calls the caller, who owns the collection, adds an element.
CallerAppend(e) ==
    /\ spc \in {"idle", "done"}
    /\ Len(data) < MaxLen
    /\ mutations < MaxMutations
    /\ mutations' = mutations + 1
    /\ data' = Append(data, e)
    /\ spc' = "idle"
    /\ UNCHANGED <<results, options, squery, si, sj, before, calls, buf, returned>>
    /\ UNCHANGED <<matchVars, concVars, wfVars, ghVars, rootVars>>

\* Between calls the caller removes the last element.
CallerRemove ==
    /\ spc \in {"idle", "done"}
    /\ Len(data) > 0
    /\ mutations < MaxMutations
    /\ mutations' = mutations + 1
    /\ data' = SubSeq(data, 1, Len(data) - 1)
    /\ spc' = "idle"
    /\ UNCHANGED <<results, options, squery, si, sj, before, calls, buf, returned>>
    /\ UNCHANGED <<matchVars, concVars, wfVars, ghVars, rootVars>>

SortNext ==
    \/ \E q \in SortQueries : SortCall(q)
    \/ SortScore
    \/ SortScorePanic
    \/ SortBegin
    \/ SortSwap
    \/ SortAdvance
    \/ SortReturn
    \/ \E e \in Keys : CallerAppend(e)
    \/ CallerRemove

SpecSort == SortInit /\ [][SortNext]_vars

(***************************************************************************)
(* Two goroutines, each calling Sort once on its own Sorter over its own   *)
(* collection; both Sorters hold the same *SortOptions, which nobody       *)
(* writes.  conc.opts is that SortOptions and conc.s[id] is Sorter id with *)
(* the local variables of its call.  One step is one loop iteration of     *)
(* one goroutine.                                                          *)
(***************************************************************************)
SorterIds == {1, 2}

ConcKeys == {Str_bob, Str_bab, Str_abel}

\* The Sorter whose results field a method called on Sorter id uses: its own.
ResultsOwnerShared(id) == 1

ResultsOwner(id) == id

ConcInit ==
    /\ conc \in [opts : {NewSortOptions, InvertedOptions},
                 s : [SorterIds -> [data : [1..ConcLen -> ConcKeys],
                                    results : {[k \in 1..ConcLen |-> <<>>]},
                                    pc : {"idle"},
                                    query : {<<>>},
                                    i : {0},
                                    j : {0},
                                    before : [1..ConcLen -> ConcKeys]]]]
    /\ \A id \in SorterIds : conc.s[id].before = conc.s[id].data
    /\ MatchIdle
    /\ SortIdle
    /\ WorkflowIdle
    /\ SourceIdle
    /\ RootIdle

\* Goroutine id calls s.Sort(q).
ConcCall(id, q) ==
    /\ conc.s[id].pc = "idle"
    /\ conc' = [conc EXCEPT !.s[id].pc = "score", !.s[id].query = q, !.s[id].i = 0]
    /\ UNCHANGED <<matchVars, sortVars, wfVars, ghVars, rootVars>>

\* s.results[i] = Match(key, query, s.Options)
ConcScore(id) ==
    LET me == conc.s[id]
        owner == ResultsOwner(id)
    IN  /\ me.pc = "score"
        /\ me.i < DataLen(me.data)
        /\ conc' = [conc EXCEPT
                       !.s[owner].results = ScoreAt(@, me.data, me.i, me.query, conc.opts),
                       !.s[id].i = me.i + 1]
        /\ UNCHANGED <<matchVars, sortVars, wfVars, ghVars, rootVars>>

\* The scoring loop has ended: sort.Sort(s) begins.
ConcBegin(id) ==
    LET me == conc.s[id]
    IN  /\ me.pc = "score"
        /\ me.i = DataLen(me.data)
        /\ conc' = [conc EXCEPT !.s[id].pc = "sort", !.s[id].i = 1, !.s[id].j = 1]
        /\ UNCHANGED <<matchVars, sortVars, wfVars, ghVars, rootVars>>

\* j > 0 && Less(j, j-1): Swap(j, j-1); j--
ConcSwap(id) ==
    LET me == conc.s[id]
        owner == ResultsOwner(id)
        res == conc.s[owner].results
    IN  /\ me.pc = "sort"
        /\ me.i < DataLen(me.data)
        /\ me.j > 0
        /\ Less(res, me.data, me.j, me.j - 1)
        /\ LET swapped == Swap(res, me.data, me.j, me.j - 1)
           IN  conc' = [conc EXCEPT
                          !.s[owner].results = swapped.results,
                          !.s[id].data = swapped.data,
                          !.s[id].j = me.j - 1]
        /\ UNCHANGED <<matchVars, sortVars, wfVars, ghVars, rootVars>>

\* The inner loop ends: i++
ConcAdvance(id) ==
    LET me == conc.s[id]
        res == conc.s[ResultsOwner(id)].results
    IN  /\ me.pc = "sort"
        /\ me.i < DataLen(me.data)
        /\ ~(me.j > 0 /\ Less(res, me.data, me.j, me.j - 1))
        /\ conc' = [conc EXCEPT !.s[id].i = me.i + 1, !.s[id].j = me.i + 1]
        /\ UNCHANGED <<matchVars, sortVars, wfVars, ghVars, rootVars>>

\* return s.results
ConcReturn(id) ==
    LET me == conc.s[id]
    IN  /\ me.pc = "sort"
        /\ me.i >= DataLen(me.data)
        /\ conc' = [conc EXCEPT !.s[id].pc = "done", !.s[id].i = 0, !.s[id].j = 0]
        /\ UNCHANGED <<matchVars, sortVars, wfVars, ghVars, rootVars>>

ConcNext ==
    \E id \in SorterIds :
        \/ \E q \in SortQueries : ConcCall(id, q)
        \/ ConcScore(id)
        \/ ConcBegin(id)
        \/ ConcSwap(id)
        \/ ConcAdvance(id)
        \/ ConcReturn(id)

SpecConcurrent == ConcInit /\ [][ConcNext]_vars

(***************************************************************************)
(* SortStrings(data, query): stringSlice{data}.Sort(query), which is       *)
(* Sort(s, query), which is NewSorter(s, nil).Sort(query).  The Sorter is  *)
(* made for the call and used once; data is the caller's slice, whose      *)
(* array stringSlice shares.                                               *)
(***************************************************************************)
Str_Documents == <<68, 111, 99, 117, 109, 101, 110, 116, 115>>
Str_Downloads == <<68, 111, 119, 110, 108, 111, 97, 100, 115>>
Str_dotfiles == <<100, 111, 116, 102, 105, 108, 101, 115>>
Str_Desktop == <<68, 101, 115, 107, 116, 111, 112>>
Str_do == <<100, 111>>

DoKeys == {Str_Documents, Str_Downloads, Str_dotfiles, Str_Desktop}

\* The orders in which a caller may hold the four names.
DoLists == {d \in [1..4 -> DoKeys] : \A k \in 1..4 : \A l \in 1..4 : d[k] = d[l] => k = l}

SortStringsInit ==
    /\ data \in CollectionsUpTo(MaxLen) \cup DoLists
    /\ buf = 1
    /\ results = NewResults(data)
    /\ options = NewSorterOptions(<<>>)
    /\ spc = "idle"
    /\ squery = <<>>
    /\ si = 0
    /\ sj = 0
    /\ before = data
    /\ calls = 0
    /\ mutations = 0
    /\ returned = <<>>
    /\ MatchIdle
    /\ ConcIdle
    /\ WorkflowIdle
    /\ SourceIdle
    /\ RootIdle

\* The one call of Sort that SortStrings makes on its Sorter.
SortStringsCall(q) ==
    /\ calls = 0
    /\ SortCall(q)

SortStringsNext ==
    \/ \E q \in SortQueries \cup {Str_do} : SortStringsCall(q)
    \/ SortScore
    \/ SortBegin
    \/ SortSwap
    \/ SortAdvance
    \/ SortReturn

SpecSortStrings == SortStringsInit /\ [][SortStringsNext]_vars

(***************************************************************************)
(* Workflow: its settings, its Options and its Feedback.  An Option is a   *)
(* closure over the setting it writes and the value it writes: the record  *)
(* [name, arg].  A nil Option or error is <<>>.                            *)
(***************************************************************************)
\* The Workflow that New() returns, with the fields the options below and
\* the feedback methods use.
New ==
    [HelpURL    |-> "",
     MaxResults |-> 0,
     TextErrors |-> FALSE,
     Feedback   |-> [Items |-> <<>>, sent |-> FALSE]]

HelpURL(URL) == [name |-> "HelpURL", arg |-> URL]

MaxResults(num) == [name |-> "MaxResults", arg |-> num]

TextErrors(on) == [name |-> "TextErrors", arg |-> on]

\* opt(wf): prev := wf.X; wf.X = arg; return X(prev)
ApplyOption(opt, w) ==
    [wf      |-> [w EXCEPT ![opt.name] = opt.arg],
     inverse |-> [name |-> opt.name, arg |-> w[opt.name]]]

\* for _, opt := range opts { previous = opt(wf) }
RECURSIVE OptionLoop(_, _, _)
OptionLoop(w, prev, opts) ==
    IF opts = <<>>
    THEN [wf |-> w, previous |-> prev]
    ELSE LET r == ApplyOption(Head(opts), w)
         IN  OptionLoop(r.wf, <<r.inverse>>, Tail(opts))

\* wf.Option(opts...)
WorkflowOption(w, opts) == OptionLoop(w, <<>>, opts)

\* The JSON object written for fb: its "items" member.  Items is never an
\* empty slice that is not nil, so null and [] need no telling apart.
MarshalIndent(fb) == [items |-> fb.Items]

\* fb.Clear()
FeedbackClear(fb) == IF Len(fb.Items) > 0 THEN [fb EXCEPT !.Items = <<>>] ELSE fb

\* fb.NewItem(title), followed by Subtitle(subtitle) on the new Item.
FeedbackNewItem(fb, title, subtitle) ==
    [fb EXCEPT !.Items = Append(@, [title |-> title, subtitle |-> subtitle])]

\* fb.Send(): the Feedback, standard output and the error afterwards.
FeedbackSendUnguarded(fb, out) ==
    [fb |-> [fb EXCEPT !.sent = TRUE], stdout |-> Append(out, MarshalIndent(fb)), err |-> <<>>]

FeedbackSend(fb, out) ==
    IF fb.sent
    THEN [fb |-> fb, stdout |-> out, err |-> <<>>]
    ELSE [fb |-> [fb EXCEPT !.sent = TRUE], stdout |-> Append(out, MarshalIndent(fb)), err |-> <<>>]

\* The truncation at the head of SendFeedback.
TruncateItemsKeepLast(w) ==
    IF w.MaxResults > 0 /\ Len(w.Feedback.Items) > w.MaxResults
    THEN [w EXCEPT !.Feedback.Items =
              SubSeq(@, Len(@) - w.MaxResults + 1, Len(@))]
    ELSE w

TruncateItems(w) ==
    IF w.MaxResults > 0 /\ Len(w.Feedback.Items) > w.MaxResults
    THEN [w EXCEPT !.Feedback.Items = SubSeq(@, 1, w.MaxResults)]
    ELSE w

\* wf.SendFeedback(): the Workflow and standard output afterwards, and
\* whether log.Fatalf ended the process.
WorkflowSendFeedback(w, out) ==
    LET t == TruncateItems(w)
        r == FeedbackSend(t.Feedback, out)
    IN  [wf |-> [t EXCEPT !.Feedback = r.fb], stdout |-> r.stdout, fatal |-> r.err # <<>>]

\* wf.Warn(title, subtitle)
WorkflowWarn(w, out, title, subtitle) ==
    WorkflowSendFeedback(
        [w EXCEPT !.Feedback = FeedbackNewItem(FeedbackClear(@), title, subtitle)], out)

URLs == {"", "http://www.example.com"}

OptionValues ==
    {HelpURL(u) : u \in URLs} \cup {MaxResults(n) : n \in 0..MaxLimit}
        \cup {TextErrors(b) : b \in BOOLEAN}

OptionLists == UNION {[1..n -> OptionValues] : n \in 1..MaxOpts}

(***************************************************************************)
(* A Workflow whose settings are changed by wf.Option(opts...) and put     *)
(* back by applying the Option that call returned.                         *)
(***************************************************************************)
OptionInit ==
    /\ wf = New
    /\ stdout = <<>>
    /\ previous = <<>>
    /\ saved = New
    /\ wpc = "idle"
    /\ MatchIdle
    /\ SortIdle
    /\ ConcIdle
    /\ SourceIdle
    /\ RootIdle

\* previous := wf.Option(opts...)
OptionCall(opts) ==
    /\ wpc \in {"idle", "reverted"}
    /\ LET r == WorkflowOption(wf, opts)
       IN  /\ wf' = r.wf
           /\ previous' = r.previous
    /\ saved' = wf
    /\ wpc' = "applied"
    /\ UNCHANGED stdout
    /\ UNCHANGED <<matchVars, sortVars, concVars, ghVars, rootVars>>

\* wf.Option(previous)
OptionRevert ==
    /\ wpc = "applied"
    /\ previous # <<>>
    /\ wf' = WorkflowOption(wf, previous).wf
    /\ wpc' = "reverted"
    /\ UNCHANGED <<stdout, previous, saved>>
    /\ UNCHANGED <<matchVars, sortVars, concVars, ghVars, rootVars>>

OptionNext ==
    \/ \E opts \in OptionLists : OptionCall(opts)
    \/ OptionRevert

SpecOption == OptionInit /\ [][OptionNext]_vars

(***************************************************************************)
(* A Workflow building and sending its feedback.  stdout is the sequence   *)
(* of writes to standard output; saved is the Workflow as it was when      *)
(* SendFeedback or Warn was last called; wpc is "fatal" once log.Fatalf    *)
(* has ended the process.                                                  *)
(***************************************************************************)
Titles == {"a", "b"}

FeedbackInit ==
    /\ wf = New
    /\ stdout = <<>>
    /\ previous = <<>>
    /\ saved = New
    /\ wpc = "idle"
    /\ MatchIdle
    /\ SortIdle
    /\ ConcIdle
    /\ SourceIdle
    /\ RootIdle

\* wf.Option(MaxResults(num))
SetMaxResults(num) ==
    /\ wpc = "idle"
    /\ wf' = WorkflowOption(wf, <<MaxResults(num)>>).wf
    /\ UNCHANGED <<stdout, previous, saved, wpc>>
    /\ UNCHANGED <<matchVars, sortVars, concVars, ghVars, rootVars>>

\* wf.NewItem(title)
NewItem(title) ==
    /\ wpc = "idle"
    /\ Len(wf.Feedback.Items) < MaxItems
    /\ wf' = [wf EXCEPT !.Feedback = FeedbackNewItem(@, title, "")]
    /\ UNCHANGED <<stdout, previous, saved, wpc>>
    /\ UNCHANGED <<matchVars, sortVars, concVars, ghVars, rootVars>>

\* wf.Feedback.Clear()
Clear ==
    /\ wpc = "idle"
    /\ wf' = [wf EXCEPT !.Feedback = FeedbackClear(@)]
    /\ UNCHANGED <<stdout, previous, saved, wpc>>
    /\ UNCHANGED <<matchVars, sortVars, concVars, ghVars, rootVars>>

\* wf.Feedback.Send()
Send ==
    /\ wpc = "idle"
    /\ LET r == FeedbackSend(wf.Feedback, stdout)
       IN  /\ wf' = [wf EXCEPT !.Feedback = r.fb]
           /\ stdout' = r.stdout
    /\ UNCHANGED <<previous, saved, wpc>>
    /\ UNCHANGED <<matchVars, sortVars, concVars, ghVars, rootVars>>

\* wf.SendFeedback()
SendFeedback ==
    /\ wpc = "idle"
    /\ LET r == WorkflowSendFeedback(wf, stdout)
       IN  /\ wf' = r.wf
           /\ stdout' = r.stdout
           /\ wpc' = IF r.fatal THEN "fatal" ELSE "idle"
    /\ saved' = wf
    /\ UNCHANGED previous
    /\ UNCHANGED <<matchVars, sortVars, concVars, ghVars, rootVars>>

\* wf.Warn(title, subtitle)
Warn(title, subtitle) ==
    /\ wpc = "idle"
    /\ LET r == WorkflowWarn(wf, stdout, title, subtitle)
       IN  /\ wf' = r.wf
           /\ stdout' = r.stdout
           /\ wpc' = IF r.fatal THEN "fatal" ELSE "idle"
    /\ saved' = wf
    /\ UNCHANGED previous
    /\ UNCHANGED <<matchVars, sortVars, concVars, ghVars, rootVars>>

FeedbackNext ==
    \/ \E num \in 0..MaxLimit : SetMaxResults(num)
    \/ \E title \in Titles : NewItem(title)
    \/ Clear
    \/ Send
    \/ SendFeedback
    \/ \E title \in Titles : Warn(title, "warning")

SpecFeedback == FeedbackInit /\ [][FeedbackNext]_vars

(***************************************************************************)
(* githubSource: the releases of a repository as fetched from GitHub, and  *)
(* the downloads parsed from them.  A nil slice or error is <<>>; a slice  *)
(* that is not nil is <<s>> with s its contents.                           *)
(***************************************************************************)
\* The extension filepath.Ext gives for the file names of the model.
Ext(name) ==
    CASE name = "wf.alfredworkflow"  -> ".alfredworkflow"
      [] name = "wf.alfred3workflow" -> ".alfred3workflow"
      [] name = "notes.md"           -> ".md"

\* rxWorkflowFile.FindStringSubmatch(name) has a match (of length 2).
IsWorkflowFile(name) == name \in {"wf.alfredworkflow", "wf.alfred3workflow"}

\* NewSemVer(tag): the version as <<major, minor, patch>>, or an error.
NewSemVer(tag) ==
    CASE tag = "v0.2.0" -> [v |-> <<0, 2, 0>>, err |-> <<>>]
      [] tag = "v1.0.0" -> [v |-> <<1, 0, 0>>, err |-> <<>>]
      [] tag = "latest" -> [v |-> <<0, 0, 0>>, err |-> <<"invalid semantic version">>]

\* byVersion.Less: a is a lower version than b.
SemVerLt(a, b) ==
    \/ a[1] < b[1]
    \/ a[1] = b[1] /\ a[2] < b[2]
    \/ a[1] = b[1] /\ a[2] = b[2] /\ a[3] < b[3]

\* sort.Sort(sort.Reverse(byVersion(dls))), an insertion sort for at most
\* 12 downloads: x moves left past every download of a lower version.
RECURSIVE InsertReverseByVersion(_, _)
InsertReverseByVersion(sorted, x) ==
    IF sorted = <<>>
    THEN <<x>>
    ELSE LET last == sorted[Len(sorted)]
         IN  IF SemVerLt(last.Version, x.Version)
             THEN Append(InsertReverseByVersion(SubSeq(sorted, 1, Len(sorted) - 1), x), last)
             ELSE Append(sorted, x)

RECURSIVE SortReverseByVersion(_)
SortReverseByVersion(dls) ==
    IF dls = <<>>
    THEN <<>>
    ELSE InsertReverseByVersion(SortReverseByVersion(SubSeq(dls, 1, Len(dls) - 1)),
                                dls[Len(dls)])

\* for _, a := range r.Assets { ... all = append(all, w) }
RECURSIVE AssetDownloads(_, _, _)
AssetDownloads(assets, r, v) ==
    IF assets = <<>>
    THEN <<>>
    ELSE LET a == Head(assets)
             rest == AssetDownloads(Tail(assets), r, v)
         IN  IF ~IsWorkflowFile(a.Name)
             THEN rest
             ELSE <<[URL        |-> a.URL,
                     Filename   |-> a.Name,
                     Version    |-> v,
                     Prerelease |-> r.Prerelease]>> \o rest

\* validRelease(dls): nil, or the error.
validReleaseAllowDupes(dls) ==
    IF Len(dls) = 0 THEN <<"empty slice">> ELSE <<>>

validRelease(dls) ==
    IF Len(dls) = 0
    THEN <<"empty slice">>
    ELSE IF \E i \in 1..Len(dls) : \E j \in 1..Len(dls) :
                i # j /\ Ext(dls[i].Filename) = Ext(dls[j].Filename)
         THEN <<"multiple files with extension">>
         ELSE <<>>

\* for _, r := range rels { ... dls = append(dls, all...) }
RECURSIVE ParseReleases(_)
ParseReleases(rels) ==
    IF rels = <<>>
    THEN <<>>
    ELSE LET r == Head(rels)
             rest == ParseReleases(Tail(rels))
             sv == NewSemVer(r.Tag)
             all == AssetDownloads(r.Assets, r, sv.v)
         IN  IF Len(r.Assets) = 0 THEN rest
             ELSE IF sv.err # <<>> THEN rest
             ELSE IF validRelease(all) # <<>> THEN rest
             ELSE all \o rest

\* parseGitHubReleases(js): js.ok tells whether json.Unmarshal accepts js
\* and js.rels is what it decodes to.
parseGitHubReleases(js) ==
    IF ~js.ok
    THEN [dls |-> <<>>, err |-> <<"json">>]
    ELSE [dls |-> <<SortReverseByVersion(ParseReleases(js.rels))>>, err |-> <<>>]

\* src.Downloads() when src.fetch returns f: src.dls afterwards, what the
\* call returns, and whether it called fetch.
Downloads(dls, f) ==
    IF dls = <<>>
    THEN IF f.err # <<>>
         THEN [dls |-> <<<<>>>>, ret |-> [dls |-> <<>>, err |-> f.err], fetched |-> TRUE]
         ELSE LET parsed == parseGitHubReleases(f.js)
              IN  IF parsed.err # <<>>
                  THEN [dls |-> parsed.dls, ret |-> [dls |-> <<>>, err |-> parsed.err],
                        fetched |-> TRUE]
                  ELSE [dls |-> parsed.dls, ret |-> [dls |-> parsed.dls, err |-> <<>>],
                        fetched |-> TRUE]
    ELSE [dls |-> dls, ret |-> [dls |-> dls, err |-> <<>>], fetched |-> FALSE]

Asset_wf == [Name |-> "wf.alfredworkflow", URL |-> "https://github.com/wf.alfredworkflow"]
Asset_wf3 == [Name |-> "wf.alfred3workflow", URL |-> "https://github.com/wf.alfred3workflow"]
Asset_notes == [Name |-> "notes.md", URL |-> "https://github.com/notes.md"]

AssetLists ==
    {<<>>, <<Asset_wf>>, <<Asset_notes>>, <<Asset_wf, Asset_wf3>>, <<Asset_wf, Asset_wf>>,
     <<Asset_notes, Asset_wf3>>}

Tags == {"v0.2.0", "v1.0.0", "latest"}

Releases == [Name : {"release"}, Prerelease : {FALSE}, Assets : AssetLists, Tag : Tags]

NoDocument == [ok |-> FALSE, rels |-> <<>>]

Documents ==
    {NoDocument} \cup {[ok |-> TRUE, rels |-> l] :
                          l \in UNION {[1..n -> Releases] : n \in 0..MaxReleases}}

\* What src.fetch may return: an error, or the bytes of a document.
FetchResults ==
    {[js |-> NoDocument, err |-> <<"fetch">>]} \cup {[js |-> d, err |-> <<>>] : d \in Documents}

(***************************************************************************)
(* Calls of Downloads on one githubSource.  gh.called tells whether        *)
(* Downloads has been called, gh.fetched whether the last call called      *)
(* fetch and gh.js what fetch returned then; gh.failed and gh.succeeded    *)
(* tell whether a fetch has failed, and whether a fetch and the parse      *)
(* after it have succeeded, in any call so far.                            *)
(***************************************************************************)
SourceInit ==
    /\ gh = [dls       |-> <<>>,
             ret       |-> [dls |-> <<>>, err |-> <<>>],
             called    |-> FALSE,
             fetched   |-> FALSE,
             js        |-> [js |-> NoDocument, err |-> <<>>],
             failed    |-> FALSE,
             failedBefore |-> FALSE,
             succeeded |-> FALSE]
    /\ MatchIdle
    /\ SortIdle
    /\ ConcIdle
    /\ WorkflowIdle
    /\ RootIdle

\* src.Downloads(), with f what src.fetch returns if it is called.
DownloadsCall(f) ==
    /\ LET r == Downloads(gh.dls, f)
       IN  gh' = [dls       |-> r.dls,
                  ret       |-> r.ret,
                  called    |-> TRUE,
                  fetched   |-> r.fetched,
                  js        |-> IF r.fetched THEN f ELSE gh.js,
                  failed    |-> gh.failed \/ (r.fetched /\ f.err # <<>>),
                  failedBefore |-> gh.failed,
                  succeeded |-> gh.succeeded \/ (r.fetched /\ r.ret.err = <<>>)]
    /\ UNCHANGED <<matchVars, sortVars, concVars, wfVars, rootVars>>

\* A call with src.dls nil, which calls fetch.
DownloadsFetching == gh.dls = <<>> /\ \E f \in FetchResults : DownloadsCall(f)

\* A call with src.dls set, which does not.
DownloadsCached == gh.dls # <<>> /\ DownloadsCall([js |-> NoDocument, err |-> <<>>])

SourceNext == DownloadsFetching \/ DownloadsCached

SpecSource == SourceInit /\ [][SourceNext]_vars

(***************************************************************************)
(* findWorkflowRoot.  A clean absolute path is the sequence of its         *)
(* segments: "/" is <<>> and "/a/b" is <<"a", "b">>.                       *)
(***************************************************************************)
\* strings.Split(p, "/") of the clean absolute path p.
Split(p) == IF p = <<>> THEN <<"", "">> ELSE <<"">> \o p

\* strings.Join(segs[0:i], "/"), with "" read as "/".
Join(segs, i) == SubSeq(segs, 2, i)

\* filepath.Dir(p)
FilepathDir(p) == IF p = <<>> THEN <<>> ELSE SubSeq(p, 1, Len(p) - 1)

\* for i := len(segs) - 1; i > 0; i-- { ... }: dirs after the iterations
\* from i down.  seen holds exactly the elements of dirs.
RECURSIVE QueueFrom(_, _, _)
QueueFrom(dirs, segs, i) ==
    IF i <= 0
    THEN dirs
    ELSE LET dir == Join(segs, i)
         IN  QueueFrom(IF \E k \in 1..Len(dirs) : dirs[k] = dir
                       THEN dirs
                       ELSE Append(dirs, dir),
                       segs, i - 1)

\* queueTree(p)
QueueTree(dirs, p) == QueueFrom(dirs, Split(p), Len(Split(p)) - 1)

\* The first directory of dirs that holds an info.plist, or path.
RECURSIVE FirstWithPlist(_, _, _)
FirstWithPlist(dirs, plists, path) ==
    IF dirs = <<>>
    THEN path
    ELSE IF Head(dirs) \in plists
         THEN Head(dirs)
         ELSE FirstWithPlist(Tail(dirs), plists, path)

\* findWorkflowRoot(path), with args0 the value of os.Args[0] and plists
\* the directories that hold an info.plist.
findWorkflowRoot(path, args0, plists) ==
    FirstWithPlist(QueueTree(QueueTree(<<>>, path), FilepathDir(args0)), plists, path)

SegmentNames == {"a", "b"}

Directories == UNION {[1..n -> SegmentNames] : n \in 0..MaxDepth}

(***************************************************************************)
(* Workflow.Dir: root.wd is the working directory, root.args0 the path of  *)
(* the executable, root.plists the directories holding an info.plist and   *)
(* root.dir is wf.dir: <<>> while it is "", <<d>> once it is set to d.     *)
(***************************************************************************)
RootInit ==
    /\ root \in [wd     : Directories,
                 args0  : {Append(d, "workflow") : d \in Directories},
                 plists : {ds \in SUBSET Directories : Cardinality(ds) <= 2},
                 dir    : {<<>>}]
    /\ MatchIdle
    /\ SortIdle
    /\ ConcIdle
    /\ WorkflowIdle
    /\ SourceIdle

\* wf.Dir()
Dir ==
    /\ root' = IF root.dir = <<>>
               THEN [root EXCEPT !.dir = <<findWorkflowRoot(root.wd, root.args0, root.plists)>>]
               ELSE root
    /\ UNCHANGED <<matchVars, sortVars, concVars, wfVars, ghVars>>

RootNext == Dir

SpecRoot == RootInit /\ [][RootNext]_vars

(***************************************************************************)
(* Properties of Match.                                                    *)
(***************************************************************************)
\* Two code points are the same letter up to case.
SameLetter(a, b) ==
    \/ a = b
    \/ a \in 65..90 /\ b = a + 32
    \/ b \in 65..90 /\ a = b + 32

\* q occurs in s in order, not necessarily contiguously, ignoring case.
IsSubsequence(q, s) ==
    \E f \in [1..Len(q) -> 1..Len(s)] :
        /\ \A k \in 1..Len(q) : SameLetter(q[k], s[f[k]])
        /\ \A k \in 1..Len(q) : \A l \in 1..Len(q) : k < l => f[k] < f[l]

\* q is s with one or more characters removed.
IsProperSubsequence(q, s) ==
    /\ Len(q) < Len(s)
    /\ \E f \in [1..Len(q) -> 1..Len(s)] :
        /\ \A k \in 1..Len(q) : q[k] = s[f[k]]
        /\ \A k \in 1..Len(q) : \A l \in 1..Len(q) : k < l => f[k] < f[l]

Abs(x) == IF x < 0 THEN -x ELSE x

IsLowerLetter(c) == c \in 97..122
IsUpperLetter(c) == c \in 65..90

\* "abc", "ac", "ca", "GitHub", "github" and "gh" as code points.
Str_abc == <<97, 98, 99>>
Str_ac == <<97, 99>>
Str_ca == <<99, 97>>
Str_GitHub == <<71, 105, 116, 72, 117, 98>>
Str_github == <<103, 105, 116, 104, 117, 98>>
Str_gh == <<103, 104>>

\* C1: Match reports Match=true exactly when the query is a case-insensitive
\* subsequence of the candidate, whatever the weights; "ac" matches "abc"
\* and "ca" does not.
C1_MatchIffSubsequence ==
    /\ mpc = "done" => (result[1].Match <=> IsSubsequence(query, str))
    /\ Match(Str_abc, Str_ac, o).Match
    /\ ~Match(Str_abc, Str_ca, o).Match

\* A finished call in which the query matched across a gap and in another case.
C1_Witness ==
    /\ mpc = "done"
    /\ str = <<65, 95, 98>>
    /\ query = <<97, 98>>
    /\ result[1].Match

\* C6: an empty query matches every candidate, the empty one included,
\* under every weight configuration.
C6_EmptyQueryMatches ==
    (mpc = "done" /\ query = <<>>) => result[1].Match

\* A finished call with an empty query on a three-character candidate.
C6_Witness ==
    /\ mpc = "done"
    /\ query = <<>>
    /\ Len(str) = 3
    /\ o = InvertedOptions
    /\ result[1].Match

\* C7: an empty candidate does not match a non-empty query and scores 0.
C7_EmptyCandidateNoMatch ==
    (mpc = "done" /\ str = <<>> /\ query # <<>>) =>
        (~result[1].Match /\ result[1].Score = 0)

\* A finished call on the empty candidate with a two-character query.
C7_Witness ==
    /\ mpc = "done"
    /\ str = <<>>
    /\ Len(query) = 2
    /\ ~result[1].Match

\* C8: under the default weights a string matches itself, with a score at
\* least that of any proper subsequence of it used as the query.
C8_ExactAtLeastSubsequence ==
    (mpc = "done" /\ o = NewSortOptions) =>
        LET exact == Match(str, str, o)
        IN  /\ exact.Match
            /\ IsProperSubsequence(query, str) => exact.Score >= result[1].Score

\* A finished default-weight call whose query skips the middle character.
C8_Witness ==
    /\ mpc = "done"
    /\ o = NewSortOptions
    /\ str = <<97, 98, 97>>
    /\ query = <<97, 97>>
    /\ result[1].Match
    /\ result[1].Score < Match(str, str, o).Score

\* C9 as stated: for every weight configuration the leading-letter penalty
\* added at position p is no smaller at p + 1 and its magnitude is at most
\* that of MaxLeadingLetterPenalty.
C9_Original ==
    m.penalised =>
        /\ LeadingPenalty(m.strIdx, o) <= m.penalty
        /\ Abs(m.penalty) <= Abs(o.MaxLeadingLetterPenalty)

\* C9: when LeadingLetterPenalty is not positive, the leading-letter penalty
\* added at position p is no smaller at p + 1 and its magnitude is at most
\* that of MaxLeadingLetterPenalty.
C9_PenaltyMonotoneBounded ==
    (m.penalised /\ o.LeadingLetterPenalty <= 0) =>
        /\ LeadingPenalty(m.strIdx, o) <= m.penalty
        /\ Abs(m.penalty) <= Abs(o.MaxLeadingLetterPenalty)

\* The first match is at position 2, where the penalty has reached the floor.
C9_Witness ==
    /\ m.penalised
    /\ m.strIdx = 3
    /\ o = FlatOptions
    /\ m.penalty = o.MaxLeadingLetterPenalty
    /\ 2 * o.LeadingLetterPenalty < o.MaxLeadingLetterPenalty

\* C10: the camel-case bonus is added to a matched character exactly when
\* the previous character is a lowercase letter and the matched one is an
\* uppercase letter; so "GitHub" scores above "github" for the query "gh".
C10_CamelBonus ==
    /\ m.strIdx >= 1 =>
        (m.camel <=> /\ m.hit
                     /\ m.strIdx >= 2
                     /\ IsLowerLetter(str[m.strIdx - 1])
                     /\ IsUpperLetter(str[m.strIdx]))
    /\ Match(Str_GitHub, Str_gh, NewSortOptions).Score
         > Match(Str_github, Str_gh, NewSortOptions).Score

\* The camel-case bonus has just been added for 'A' following 'b'.
C10_Witness ==
    /\ m.camel
    /\ m.strIdx = 2
    /\ str[1] = 98
    /\ str[2] = 65
    /\ query = <<97>>

(***************************************************************************)
(* Properties of Sorter.Sort.  Indices range over the collection.          *)
(***************************************************************************)
\* The score Match gives the key e in the current call.
ScoreOf(e) == Match(e, squery, options).Score

\* e is ranked strictly ahead of f: higher score, or equal score and
\* earlier in the natural order.
RankedAhead(e, f) ==
    \/ ScoreOf(e) > ScoreOf(f)
    \/ ScoreOf(e) = ScoreOf(f) /\ StrLess(e, f)

\* C2: when Sort has returned, the results are in descending score order.
C2_DescendingScore ==
    spc = "done" =>
        \A i \in 1..Len(data) : \A j \in 1..Len(data) :
            i < j => results[i][1].Score >= results[j][1].Score

\* Sort has returned after reordering three elements of differing scores.
C2_Witness ==
    /\ spc = "done"
    /\ Len(data) = 3
    /\ data # before
    /\ results[1][1].Score > results[2][1].Score
    /\ results[2][1].Score > results[3][1].Score

\* C3: when Sort has returned, elements of equal score are in the natural
\* order of the collection, and the position of every element is fixed by
\* the elements present at the call, whatever their order was.
C3_TiesInNaturalOrder ==
    spc = "done" =>
        /\ \A i \in 1..Len(data) : \A j \in 1..Len(data) :
               (i < j /\ results[i][1].Score = results[j][1].Score)
                   => ~DataLess(data, j - 1, i - 1)
        /\ Len(data) = Len(before)
        /\ \A i \in 1..Len(data) :
               LET ahead == Cardinality({k \in 1..Len(before) : RankedAhead(before[k], data[i])})
                   same  == Cardinality({k \in 1..Len(before) : before[k] = data[i]})
               IN  ahead < i /\ i <= ahead + same

\* Sort has returned with "bab" and "bob" tied and moved into natural order.
C3_Witness ==
    /\ spc = "done"
    /\ before = <<Str_bob, Str_bab>>
    /\ data = <<Str_bab, Str_bob>>
    /\ results[1][1].Score = results[2][1].Score

\* C4: while sort.Sort reorders the collection and after Sort has returned,
\* the result at every index is the one computed for the element now there.
C4_IndexAligned ==
    spc \in {"sort", "done"} =>
        \A i \in 1..Len(data) :
            /\ results[i] # <<>>
            /\ results[i][1].SortKey = SortKey(data, i - 1)
            /\ results[i][1] = Match(SortKey(data, i - 1), squery, options)

\* sort.Sort is under way and has already swapped two different elements.
C4_Witness ==
    /\ spc = "sort"
    /\ Len(data) = 3
    /\ data # before
    /\ si = 2

\* C5 as stated: under the default weights every element that matches is
\* ahead of every element that does not.
C5_Original ==
    (spc = "done" /\ options = NewSortOptions) =>
        \A i \in 1..Len(data) : \A j \in 1..Len(data) :
            (results[i][1].Match /\ ~results[j][1].Match) => i < j

\* C5: under the default weights an element that matches is ahead of
\* every element that does not match and scores lower than it; ranking
\* "bob", "alice", "abel" against "a" puts "abel" and "alice" before "bob".
C5_MatchAheadOfLowerScore ==
    (spc = "done" /\ options = NewSortOptions) =>
        /\ \A i \in 1..Len(data) : \A j \in 1..Len(data) :
               (/\ results[i][1].Match
                /\ ~results[j][1].Match
                /\ results[j][1].Score < results[i][1].Score) => i < j
        /\ (before = <<Str_bob, Str_alice, Str_abel>> /\ squery = <<97>>)
               => data = <<Str_abel, Str_alice, Str_bob>>

\* "bob", "alice", "abel" has been ranked against "a".
C5_Witness ==
    /\ spc = "done"
    /\ options = NewSortOptions
    /\ before = <<Str_bob, Str_alice, Str_abel>>
    /\ squery = <<97>>
    /\ results[1][1].Match
    /\ results[2][1].Match
    /\ ~results[3][1].Match

(***************************************************************************)
(* Properties of repeated calls of Sort on one Sorter.                     *)
(***************************************************************************)
\* What a caller reads now through a slice that an earlier call returned:
\* the Sorter's buffer if the slice is that array, else what it held.
SliceContents(r) == IF r.buf = buf THEN results ELSE r.seen

\* C12: after a second call of Sort, with a new query, the result at every
\* index of the collection is the one Match gives for the element there and
\* the new query; none is left from the first query.
C12_Rescored ==
    (spc = "done" /\ Len(returned) >= 2) =>
        \A i \in 1..Len(data) :
            /\ results[i] = <<Match(SortKey(data, i - 1), squery, options)>>
            /\ results[i][1].Query = squery

\* A second call has returned; the first one had scored the same two
\* elements against another query.
C12_Witness ==
    /\ spc = "done"
    /\ Len(returned) = 2
    /\ mutations = 0
    /\ Len(data) = 2
    /\ returned[1].seen[1][1].Query # squery
    /\ returned[1].seen[2][1].Query # squery
    /\ results[1][1].Query = squery
    /\ results[2][1].Query = squery

DefaultScoreOf(e) == Match(e, squery, NewSortOptions).Score

\* e is ranked strictly ahead of f by default score, then by string order.
DefaultRankedAhead(e, f) ==
    \/ DefaultScoreOf(e) > DefaultScoreOf(f)
    \/ DefaultScoreOf(e) = DefaultScoreOf(f) /\ StrLess(e, f)

\* C11: ranking "Documents", "Downloads", "dotfiles", "Desktop" against "do"
\* with the default weights reports four matches, and each of the three
\* names that begin with "do" scores strictly above "Desktop".
C11_DoRanking ==
    (spc = "done" /\ squery = Str_do /\ before \in DoLists) =>
        /\ \A i \in 1..Len(data) : results[i][1].Match
        /\ \A i \in 1..Len(data) : \A j \in 1..Len(data) :
               (data[i] # Str_Desktop /\ data[j] = Str_Desktop)
                   => results[i][1].Score > results[j][1].Score

\* The four names have been ranked against "do"; "Desktop" came last.
C11_Witness ==
    /\ spc = "done"
    /\ squery = Str_do
    /\ before = <<Str_Desktop, Str_Documents, Str_Downloads, Str_dotfiles>>
    /\ data[4] = Str_Desktop
    /\ results[4][1].Match

\* C14: SortStrings ranks the caller's slice in place as the string adapter
\* with the default weights does: the slice ends in descending default
\* score with ties in string order, and the results returned are those of
\* Match under the default weights for the string now at each index.
C14_SortStringsIsDefaultRanking ==
    spc = "done" =>
        /\ Len(results) = Len(data)
        /\ Len(data) = Len(before)
        /\ returned = <<[buf |-> buf, seen |-> results]>>
        /\ \A i \in 1..Len(data) :
               results[i] = <<Match(data[i], squery, NewSortOptions)>>
        /\ \A i \in 1..Len(data) :
               LET ahead == Cardinality({k \in 1..Len(before) : DefaultRankedAhead(before[k], data[i])})
                   same  == Cardinality({k \in 1..Len(before) : before[k] = data[i]})
               IN  ahead < i /\ i <= ahead + same

\* SortStrings has reordered three strings against "a".
C14_Witness ==
    /\ spc = "done"
    /\ squery = <<97>>
    /\ before = <<Str_bob, Str_bab, Str_abel>>
    /\ data = <<Str_abel, Str_bob, Str_bab>>

\* C15: the options NewSorter makes when given nil are the documented
\* defaults, equal to those of NewSortOptions, and score as they do.
C15_DefaultOptions ==
    /\ options.AdjacencyBonus = 5
    /\ options.SeparatorBonus = 10
    /\ options.CamelBonus = 10
    /\ options.LeadingLetterPenalty = -3
    /\ options.MaxLeadingLetterPenalty = -9
    /\ options.UnmatchedLetterPenalty = -1
    /\ options = NewSortOptions
    /\ \A i \in 1..Len(results) :
           results[i] # <<>> =>
               results[i][1].Score = Match(results[i][1].SortKey, squery, NewSortOptions).Score

\* A Sorter made with nil options has scored "abel" against "a" as 7.
C15_Witness ==
    /\ spc = "done"
    /\ squery = <<97>>
    /\ data = <<Str_abel>>
    /\ options = NewSorterOptions(<<>>)
    /\ results[1][1].Score = 7

(***************************************************************************)
(* Properties of concurrent calls of Sort.                                 *)
(***************************************************************************)
\* e is ranked strictly ahead of f for the query q under the options p.
RankedAheadFor(e, f, q, p) ==
    \/ Match(e, q, p).Score > Match(f, q, p).Score
    \/ Match(e, q, p).Score = Match(f, q, p).Score /\ StrLess(e, f)

\* Sorter id holds what its call of Sort yields when nothing else runs: its
\* own collection ranked, with the result of each element at its index.
AsWhenAlone(id) ==
    LET me == conc.s[id]
    IN  /\ Len(me.data) = Len(me.before)
        /\ \A i \in 1..Len(me.data) :
               /\ me.results[i] = <<Match(me.data[i], me.query, conc.opts)>>
               /\ LET ahead == Cardinality({k \in 1..Len(me.before) :
                                   RankedAheadFor(me.before[k], me.data[i], me.query, conc.opts)})
                      same  == Cardinality({k \in 1..Len(me.before) : me.before[k] = me.data[i]})
                  IN  ahead < i /\ i <= ahead + same

\* C16: two calls of Sort that run concurrently on distinct Sorters over
\* distinct collections, sharing unmodified options, each end with the
\* order and the results of a call run alone, however their steps
\* interleave; a Sorter that has not been called keeps its collection.
C16_NoInterference ==
    \A id \in SorterIds :
        /\ conc.s[id].pc = "done" => AsWhenAlone(id)
        /\ conc.s[id].pc = "idle" => conc.s[id].data = conc.s[id].before

\* Both calls have returned, each after swapping, with different queries.
C16_Witness ==
    /\ conc.s[1].pc = "done"
    /\ conc.s[2].pc = "done"
    /\ conc.s[1].query # conc.s[2].query
    /\ conc.s[1].data # conc.s[1].before
    /\ conc.s[2].data # conc.s[2].before

(***************************************************************************)
(* Totality of Match.                                                      *)
(***************************************************************************)
\* The cursors of the scan are in range, the scan can take a step until it
\* has returned, and it returns a Result after Len(str) iterations.
MatchCursorsInRange ==
    /\ 0 <= m.queryIdx /\ m.queryIdx <= Len(query)
    /\ 0 <= m.strIdx /\ m.strIdx <= Len(str)
    /\ mpc = "loop" => result = <<>> /\ ENABLED MatchNext
    /\ mpc = "done" => m.strIdx = Len(str) /\ Len(result) = 1

\* C17: Match is total.  In every state of the scan 0 <= queryIdx <=
\* len(query), so uQuery[queryIdx] is read only in range; every iteration
\* consumes exactly one code point of the candidate; and every call
\* returns a Result, the empty query and a query longer than the candidate
\* included.
C17_MatchTotal ==
    /\ []MatchCursorsInRange
    /\ [][mpc = "loop" /\ mpc' = "loop" => m'.strIdx = m.strIdx + 1]_vars
    /\ <>(mpc = "done")

\* Match has returned for a query longer than the candidate after the
\* query cursor moved.
C17_Witness ==
    /\ mpc = "done"
    /\ Len(query) > Len(str)
    /\ m.queryIdx > 0
    /\ result # <<>>
    /\ ~result[1].Match

(***************************************************************************)
(* Properties of Workflow.Option.                                          *)
(***************************************************************************)
\* C18: after one or several options are applied in a single call of
\* wf.Option and the Option that call returned is applied, every setting
\* is back to the value it had before the call.
C18_OptionReturnsInverse == wpc = "reverted" => wf = saved

(***************************************************************************)
(* Properties of Feedback.Send and Workflow.SendFeedback.                  *)
(***************************************************************************)
\* At most one write has reached standard output, exactly when sent is
\* set; a Send after that writes nothing and returns nil; log.Fatalf has
\* not run.
SentOnce ==
    /\ Len(stdout) <= 1
    /\ wf.Feedback.sent <=> Len(stdout) = 1
    /\ wpc # "fatal"
    /\ wf.Feedback.sent =>
           LET r == FeedbackSend(wf.Feedback, stdout)
           IN  r.stdout = stdout /\ r.err = <<>> /\ r.fb = wf.Feedback

\* C19: feedback is sent at most once.  Across every sequence of NewItem,
\* Clear, Send, SendFeedback and Warn calls only the first Send writes
\* JSON to standard output; once sent is true it stays true, and every
\* later Send writes nothing and returns nil.
C19_SentAtMostOnce ==
    /\ []SentOnce
    /\ [][/\ wf.Feedback.sent => wf'.Feedback.sent /\ stdout' = stdout
          /\ stdout' # stdout => ~wf.Feedback.sent /\ wf'.Feedback.sent]_vars

\* Feedback has been sent and items were added afterwards.
C19_Witness ==
    /\ wf.Feedback.sent
    /\ Len(stdout) = 1
    /\ wf.Feedback.Items # <<>>
    /\ stdout[1].items # wf.Feedback.Items

\* out is what SendFeedback is to send of items under the limit max.
IsFirstMaxResults(out, items, max) ==
    /\ max = 0 => out = items
    /\ max > 0 =>
           /\ Len(out) = (IF Len(items) < max THEN Len(items) ELSE max)
           /\ \A i \in 1..Len(out) : out[i] = items[i]

\* C20: when SendFeedback sends, it sends at most MaxResults items if
\* MaxResults > 0, exactly the first MaxResults of them in their order,
\* and all the items unchanged if MaxResults is 0.
C20_SendsFirstMaxResults ==
    [][SendFeedback /\ stdout' # stdout =>
           /\ stdout' = Append(stdout, MarshalIndent(wf'.Feedback))
           /\ IsFirstMaxResults(wf'.Feedback.Items, wf.Feedback.Items, wf.MaxResults)]_vars

\* SendFeedback, called with two different items under MaxResults 1, has
\* sent the first of them.
C20_Witness ==
    /\ saved.MaxResults = 1
    /\ ~saved.Feedback.sent
    /\ saved.Feedback.Items = <<[title |-> "a", subtitle |-> ""], [title |-> "b", subtitle |-> ""]>>
    /\ stdout = <<[items |-> <<[title |-> "a", subtitle |-> ""]>>]>>
    /\ wf.Feedback.Items = stdout[1].items

(***************************************************************************)
(* Properties of the steps of Match.                                       *)
(***************************************************************************)
\* p is the first position of str, counted from 1, whose character is the
\* first character of the query up to case.
FirstMatchAt(p) ==
    /\ query # <<>>
    /\ p \in 1..Len(str)
    /\ SameLetter(str[p], query[1])
    /\ \A k \in 1..(p - 1) : ~SameLetter(str[k], query[1])

\* The leading-letter penalty for a first match after pos characters.
ExpectedLeadingPenalty(pos) ==
    IF pos * o.LeadingLetterPenalty <= o.MaxLeadingLetterPenalty
    THEN o.MaxLeadingLetterPenalty
    ELSE pos * o.LeadingLetterPenalty

\* C21: the leading-letter penalty is added to the running score exactly
\* in the iteration at the first position of the candidate that matches
\* the first query character, with the value position x
\* LeadingLetterPenalty floored at MaxLeadingLetterPenalty; no other
\* iteration adds it, so it is added at most once, and never for an empty
\* query or when no character matches the first query character.
C21_LeadingPenaltyOnce ==
    [][MatchIterate =>
           IF FirstMatchAt(m.strIdx + 1)
           THEN /\ m'.penalised
                /\ m'.penalty = ExpectedLeadingPenalty(m.strIdx)
                /\ m'.score = m.score + ExpectedLeadingPenalty(m.strIdx)
           ELSE /\ ~m'.penalised
                /\ m'.penalty = m.penalty]_vars

\* The first query character was first matched at the second position and
\* matched again at the third, which added no penalty.
C21_Witness ==
    /\ mpc = "done"
    /\ query # <<>>
    /\ Len(str) = 3
    /\ ~SameLetter(str[1], query[1])
    /\ SameLetter(str[2], query[1])
    /\ SameLetter(str[3], query[1])
    /\ m.penalty = ExpectedLeadingPenalty(1)
    /\ m.penalty # 0
    /\ m.hit
    /\ ~m.penalised

\* C22: at a next-match or re-match position, with the pending letter and
\* the running score as they are once the commit and the leading-letter
\* penalty of the iteration are done: if the new increment is >= the
\* pending score, the current character and increment become the pending
\* letter and score, and one unmatched-letter penalty is added to the
\* score if and only if a pending letter existed; if it is lower, the
\* pending letter, the pending score and the running score stay as they
\* are.
C22_PendingLetterRule ==
    [][MatchIterate =>
           LET b == MatchScan(m, str, query, o)
           IN  b.hit =>
                   IF b.newScore >= b.bestLetterScore
                   THEN /\ m'.bestLetter = b.strChar
                        /\ m'.bestLetterScore = b.newScore
                        /\ m'.score = b.score + (IF b.bestLetter # <<>>
                                                 THEN o.UnmatchedLetterPenalty
                                                 ELSE 0)
                   ELSE /\ m'.bestLetter = b.bestLetter
                        /\ m'.bestLower = b.bestLower
                        /\ m'.bestLetterScore = b.bestLetterScore
                        /\ m'.score = b.score]_vars

\* "a_a" for "a" with the default weights: the third character re-matches
\* with an increment equal to the pending score and replaces the pending
\* "a", at the price of one unmatched-letter penalty.
C22_Witness ==
    /\ mpc = "done"
    /\ str = <<97, 95, 97>>
    /\ query = <<97>>
    /\ o = NewSortOptions
    /\ m.hit
    /\ m.bestLetterScore = DefaultSeparatorBonus
    /\ m.score = 2 * DefaultUnmatchedLetterPenalty
    /\ result[1].Score = 8

\* The character before the one about to be read is a separator, or there
\* is none.
AfterSeparator == m.strIdx = 0 \/ str[m.strIdx] \in {95, 32}

\* C23: a matched character gets the separator bonus exactly when it is at
\* position 0 of the candidate or the character right before it is an
\* underscore or a space.
C23_SeparatorBonus ==
    /\ [](mpc = "loop" => (m.prevSeparator <=> AfterSeparator))
    /\ [][MatchIterate =>
              LET b == MatchScan(m, str, query, o)
              IN  b.hit =>
                      b.newScore =
                          (IF m.prevMatched THEN o.AdjacencyBonus ELSE 0)
                          + (IF AfterSeparator THEN o.SeparatorBonus ELSE 0)
                          + (IF b.camel THEN o.CamelBonus ELSE 0)]_vars

\* "b a" for "a" with the default weights: the "a" after the space is the
\* first match and its increment is the separator bonus.
C23_Witness ==
    /\ mpc = "done"
    /\ str = <<98, 32, 97>>
    /\ query = <<97>>
    /\ o = NewSortOptions
    /\ m.hit
    /\ m.bestLetterScore = DefaultSeparatorBonus

\* C24: for an empty query every character of the candidate is scanned as
\* unmatched: no character is a match, no leading-letter penalty and no
\* bonus is applied, and the score returned is UnmatchedLetterPenalty times
\* the number of code points of the candidate.
C24_EmptyQueryScore ==
    query = <<>> =>
        /\ m.score = o.UnmatchedLetterPenalty * m.strIdx
        /\ ~m.hit
        /\ ~m.penalised
        /\ m.penalty = 0
        /\ m.bestLetter = <<>>
        /\ m.bestLetterScore = 0
        /\ mpc = "done" =>
               /\ result[1].Match
               /\ result[1].Score = o.UnmatchedLetterPenalty * Len(str)

\* Match has returned for the empty query and a candidate of two or more
\* characters, with a penalty that is not zero.
C24_Witness ==
    /\ mpc = "done"
    /\ query = <<>>
    /\ Len(str) >= 2
    /\ o.UnmatchedLetterPenalty # 0
    /\ result[1].Score = o.UnmatchedLetterPenalty * Len(str)

(***************************************************************************)
(* Properties of the steps of Sorter.Sort.                                 *)
(***************************************************************************)
\* The number of positions of the sequence s that hold x.
CountOf(s, x) == Cardinality({k \in 1..Len(s) : s[k] = x})

\* s and t hold the same elements with the same multiplicities.
IsPermutation(s, t) ==
    /\ Len(s) = Len(t)
    /\ \A k \in 1..Len(s) : CountOf(s, s[k]) = CountOf(t, s[k])

\* What scoring the collection as it was at the call gives, by index.
ScoresAtCall == [k \in 1..Len(before) |-> <<Match(before[k], squery, options)>>]

\* C25: in a call of Sort that reaches the sort, Match is invoked once for
\* each index of the collection, in the loop that ends before sort.Sort
\* begins: each scoring step writes the result of one new index and moves
\* nothing; the sort begins when every index has been scored; and while
\* the collection is reordered the results are only exchanged, so that
\* they stay the scores computed at the call.
C25_ScoredOnceBeforeSort ==
    /\ [](spc = "score" =>
              /\ data = before
              /\ \A k \in 1..si : results[k] = ScoresAtCall[k])
    /\ [](spc = "sort" =>
              IsPermutation(SubSeq(results, 1, Len(data)), ScoresAtCall))
    /\ [][SortScore =>
              /\ si' = si + 1
              /\ \A k \in 1..Len(results) : k # si + 1 => results'[k] = results[k]]_vars
    /\ [][SortBegin => si = Len(data) /\ results' = results]_vars
    /\ [][spc = "sort" /\ spc' = "sort" =>
              IsPermutation(results', results) /\ ~ENABLED SortScore]_vars

\* The sort is under way, three elements have been scored and a swap has
\* moved the collection.
C25_Witness ==
    /\ spc = "sort"
    /\ Len(data) = 3
    /\ data # before
    /\ si < Len(data)
    /\ \E k \in 1..3 : results[k] # ScoresAtCall[k]

\* C26: at every call of Sort the results buffer has one entry per element
\* of the collection as it is at that call, also when the length of the
\* collection has changed since the Sorter was made, and no index outside
\* the buffer is written or read.
C26_BufferSizedToCollection ==
    /\ spc \in {"score", "sort", "done", "panic"} => Len(results) = Len(data)
    /\ spc # "panic"

\* C27: Sort changes the collection only by Data.Swap: during and after a
\* call the collection is a permutation of what it was when Sort was
\* called, and has the same length.
C27_CollectionPermuted ==
    spc \in {"score", "sort", "done", "panic"} =>
        /\ Len(data) = Len(before)
        /\ IsPermutation(data, before)

\* Sort has returned after reordering a collection of three elements that
\* holds one of them twice.
C27_Witness ==
    /\ spc = "done"
    /\ Len(data) = 3
    /\ data # before
    /\ \E i \in 1..3 : \E j \in 1..3 : i # j /\ data[i] = data[j]

(***************************************************************************)
(* Properties of githubSource.Downloads and parseGitHubReleases.           *)
(***************************************************************************)
\* C28: Downloads never caches a failure.  A call made after a call whose
\* fetch returned an error fetches again or returns an error; Downloads
\* returns a list with a nil error only if a fetch and the parse after it
\* have succeeded; and after a success fetch is not called again.
C28_FailureNotCached ==
    /\ (gh.called /\ gh.failedBefore /\ ~gh.succeeded) => (gh.fetched \/ gh.ret.err # <<>>)
    /\ (gh.called /\ gh.ret.err = <<>>) => gh.succeeded
    /\ (gh.called /\ gh.succeeded /\ ~gh.fetched) => gh.ret.err = <<>>

\* The release r yields downloads: it has assets, its tag is a semantic
\* version, it has a workflow file, and no two of its workflow files have
\* the same extension.
IsValidRelease(r) ==
    /\ Len(r.Assets) > 0
    /\ NewSemVer(r.Tag).err = <<>>
    /\ \E i \in 1..Len(r.Assets) : IsWorkflowFile(r.Assets[i].Name)
    /\ \A i \in 1..Len(r.Assets) : \A j \in 1..Len(r.Assets) :
           (/\ i # j
            /\ IsWorkflowFile(r.Assets[i].Name)
            /\ IsWorkflowFile(r.Assets[j].Name))
               => Ext(r.Assets[i].Name) # Ext(r.Assets[j].Name)

\* The download d is a workflow file of the release r.
IsDownloadOf(d, r) ==
    /\ d.Version = NewSemVer(r.Tag).v
    /\ d.Prerelease = r.Prerelease
    /\ \E i \in 1..Len(r.Assets) :
           /\ IsWorkflowFile(r.Assets[i].Name)
           /\ d.Filename = r.Assets[i].Name
           /\ d.URL = r.Assets[i].URL

\* C29: the downloads parsed from a document all come from releases that
\* have assets, a tag that is a semantic version, a workflow file and no
\* two workflow files with the same extension, and they are ordered by
\* version from highest to lowest.
C29_ParsedDownloads ==
    (gh.fetched /\ gh.js.err = <<>> /\ gh.js.js.ok) =>
        /\ gh.ret.err = <<>>
        /\ gh.ret.dls # <<>>
        /\ LET dls == gh.ret.dls[1]
               rels == gh.js.js.rels
           IN  /\ \A k \in 1..Len(dls) :
                      \E n \in 1..Len(rels) :
                          IsValidRelease(rels[n]) /\ IsDownloadOf(dls[k], rels[n])
               /\ \A k \in 1..Len(dls) : \A l \in 1..Len(dls) :
                      k < l => ~SemVerLt(dls[k].Version, dls[l].Version)

\* A document of three releases has been parsed: the lower version came
\* first, and one release with two files of one extension was dropped.
C29_Witness ==
    /\ gh.fetched
    /\ gh.js.err = <<>>
    /\ gh.js.js.ok
    /\ Len(gh.js.js.rels) = 3
    /\ gh.js.js.rels[1].Tag = "v0.2.0"
    /\ gh.js.js.rels[1].Assets = <<Asset_wf, Asset_wf3>>
    /\ gh.js.js.rels[2].Assets = <<Asset_wf, Asset_wf>>
    /\ gh.js.js.rels[3].Tag = "v1.0.0"
    /\ gh.js.js.rels[3].Assets = <<Asset_wf>>
    /\ gh.ret.dls # <<>>
    /\ Len(gh.ret.dls[1]) = 3
    /\ gh.ret.dls[1][1].Version = <<1, 0, 0>>

(***************************************************************************)
(* Properties of findWorkflowRoot.                                         *)
(***************************************************************************)
\* p and its ancestors, from p up to "/".
RECURSIVE SelfAndAncestors(_)
SelfAndAncestors(p) ==
    IF p = <<>> THEN <<p>> ELSE <<p>> \o SelfAndAncestors(SubSeq(p, 1, Len(p) - 1))

\* The directories the search is to visit, in order.
SearchOrder ==
    SelfAndAncestors(root.wd) \o SelfAndAncestors(SubSeq(root.args0, 1, Len(root.args0) - 1))

\* C30: findWorkflowRoot(path) returns the first directory that holds an
\* info.plist among path, its ancestors from the nearest to the root, the
\* directory of the executable and its ancestors; it returns path when
\* path holds an info.plist and when no directory does.
C30_FirstDirectoryWithPlist ==
    root.dir # <<>> =>
        /\ root.wd \in root.plists => root.dir[1] = root.wd
        /\ (\A k \in 1..Len(SearchOrder) : SearchOrder[k] \notin root.plists)
               => root.dir[1] = root.wd
        /\ \A k \in 1..Len(SearchOrder) :
               (/\ SearchOrder[k] \in root.plists
                /\ \A l \in 1..(k - 1) : SearchOrder[l] \notin root.plists)
                   => root.dir[1] = SearchOrder[k]

====
